---- MODULE Spec2Model ----
(***************************************************************************)
(* Model of package era (src/era.go): errors decorated with a code, a      *)
(* message and key/value fields, and the accessors that resolve them       *)
(* along the unwrap chain.                                                  *)
(*                                                                         *)
(* Error values live on a heap of nodes (an error is the index of its      *)
(* node, 0 is nil).  Go maps are reference values: a map is an address     *)
(* into "maps", 0 is the nil map.                                          *)
(***************************************************************************)
EXTENDS Integers, Sequences, FiniteSets, TLC

VARIABLES heap, maps, last

vars == <<heap, maps, last>>

\* ----------------------------------------------------------------- bounds
\* Longest chain built under SpecChain.
MaxChain == 4
\* Number of error values built under Spec.
MaxNodes == 3
\* Number of maps (the caller's one literal and the results of Fields) under Spec.
MaxMaps == 3
\* Size (options and bundles, counted together) of the option list of one New under SpecNew.
MaxSize == 4
\* Nesting depth of bundles under SpecNew.
MaxDepth == 2

\* ----------------------------------------------------------------- values
Nil == 0

Texts == {"an error"}
Prefixes == {"wrapped error"}
Codes == {"", "inner code", "outer code"}
Messages == {"", "inner message", "outer message"}
Keys == {"key", "inner", "outer"}
Vals == {"inner val", "outer val"}

\* The maps the caller has built before any error exists: the two maps of the
\* "wrapped" test, and an empty non-nil map.
InnerF == [k \in {"key", "inner"} |-> "inner val"]
OuterF == [k \in {"key", "outer"} |-> "outer val"]
EmptyF == [k \in {} |-> "inner val"]
Literals == <<InnerF, OuterF, EmptyF>>

\* ------------------------------------------------------------ error values
\* errors.New(text): no Unwrap method.
PlainNode(t) ==
    [kind |-> "plain", text |-> t, err |-> Nil, code |-> "", message |-> "", fields |-> Nil]

\* fmt.Errorf(prefix + ": %w", e): renders prefix then e, unwraps to e.
WrapNode(p, e) ==
    [kind |-> "wrap", text |-> p, err |-> e, code |-> "", message |-> "", fields |-> Nil]

\* &eraError{err: e}
EraNode(e) ==
    [kind |-> "era", text |-> "", err |-> e, code |-> "", message |-> "", fields |-> Nil]

\* ----------------------------------------------------------------- options
WithCode(c) == [kind |-> "code", str |-> c, map |-> Nil, members |-> <<>>]
WithMessage(m) == [kind |-> "message", str |-> m, map |-> Nil, members |-> <<>>]
WithFields(a) == [kind |-> "fields", str |-> "", map |-> a, members |-> <<>>]
Options(ms) == [kind |-> "bundle", str |-> "", map |-> Nil, members |-> ms]

RECURSIVE apply(_, _)
RECURSIVE applyEach(_, _)

\* codeOption.apply
codeApply(n, o) == [n EXCEPT !.code = o.str]

\* messageOption.apply
messageApply(n, o) == [n EXCEPT !.message = o.str]

\* Mutant: fields already set are kept.
fieldsApplyOnce(n, o) == IF n.fields = Nil THEN [n EXCEPT !.fields = o.map] ELSE n

\* fieldsOption.apply: the node keeps the caller's map itself (F(o) converts
\* the type, it does not copy).
fieldsApply(n, o) == [n EXCEPT !.fields = o.map]

\* for _, opt := range ...: opt.apply(e)
applyEach(n, os) ==
    IF os = <<>> THEN n ELSE applyEach(apply(n, Head(os)), Tail(os))

\* Mutant: only the first member of a bundle is applied.
optionsApplyFirst(n, o) ==
    IF o.members = <<>> THEN n ELSE apply(n, Head(o.members))

\* Options.apply
optionsApply(n, o) == applyEach(n, o.members)

\* The dynamic dispatch of opt.apply(e).
apply(n, o) ==
    CASE o.kind = "code" -> codeApply(n, o)
      [] o.kind = "message" -> messageApply(n, o)
      [] o.kind = "fields" -> fieldsApply(n, o)
      [] o.kind = "bundle" -> optionsApply(n, o)

\* The node New(e, opts...) returns.
NewNode(e, opts) == applyEach(EraNode(e), opts)

\* Mutant: the options are applied to the wrapped error too.
HeapAfterNewTouchingInner(h, e, opts) ==
    Append(IF h[e].kind = "era" THEN [h EXCEPT ![e] = applyEach(@, opts)] ELSE h,
           NewNode(e, opts))

\* The heap after New(e, opts...).
HeapAfterNew(h, e, opts) == Append(h, NewNode(e, opts))

\* ---------------------------------------------------------------- accessors
\* Mutant: only a decorated error is unwrapped.
UnwrapDecoratedOnly(h, e) == IF h[e].kind = "era" THEN h[e].err ELSE Nil

\* errors.Unwrap(e): nil when e has no Unwrap method.
Unwrap(h, e) == IF h[e].kind = "plain" THEN Nil ELSE h[e].err

\* e.(interface{ errorCode() string }) and its two siblings: only *eraError
\* has the three methods.
IsEra(h, e) == h[e].kind = "era"

RECURSIVE ErrorText(_, _)
\* Mutant: a decorated error puts its code in front of the text.
ErrorTextWithCode(h, e) ==
    CASE h[e].kind = "plain" -> <<h[e].text>>
      [] h[e].kind = "wrap" -> <<h[e].text>> \o ErrorText(h, h[e].err)
      [] h[e].kind = "era" ->
           (IF h[e].code = "" THEN <<>> ELSE <<h[e].code>>) \o ErrorText(h, h[e].err)

\* Error(): the rendered text, as the sequence of its parts.
ErrorText(h, e) ==
    CASE h[e].kind = "plain" -> <<h[e].text>>
      [] h[e].kind = "wrap" -> <<h[e].text>> \o ErrorText(h, h[e].err)
      [] h[e].kind = "era" -> ErrorText(h, h[e].err)

RECURSIVE Code(_, _)
\* Mutant: the walk stops at the first decorated node, whatever its code.
CodeOfFirstDecorated(h, e) ==
    IF e = Nil THEN ""
    ELSE IF IsEra(h, e) THEN h[e].code
    ELSE Code(h, Unwrap(h, e))

Code(h, e) ==
    IF e = Nil THEN ""
    ELSE IF IsEra(h, e) /\ h[e].code # "" THEN h[e].code
    ELSE Code(h, Unwrap(h, e))

RECURSIVE Message(_, _)
\* Mutant: the walk stops at the node that has a code.
MessageOfCodeNode(h, e) ==
    IF e = Nil THEN ""
    ELSE IF IsEra(h, e) /\ h[e].code # "" THEN h[e].message
    ELSE Message(h, Unwrap(h, e))

Message(h, e) ==
    IF e = Nil THEN ""
    ELSE IF IsEra(h, e) /\ h[e].message # "" THEN h[e].message
    ELSE Message(h, Unwrap(h, e))

\* e.errorFields(), as the key/value pairs a range over it visits (none for nil).
errorFields(h, m, e) == IF h[e].fields = Nil THEN EmptyF ELSE m[h[e].fields]

\* Mutant: a key already in fields is replaced.
AddFieldsReplacing(fields, addFields) ==
    [k \in DOMAIN fields \cup DOMAIN addFields |->
        IF k \in DOMAIN addFields THEN addFields[k] ELSE fields[k]]

\* The inner loop of Fields: a key already in fields is not replaced.
AddFields(fields, addFields) ==
    [k \in DOMAIN fields \cup DOMAIN addFields |->
        IF k \in DOMAIN fields THEN fields[k] ELSE addFields[k]]

RECURSIVE FieldsLoop(_, _, _, _)
FieldsLoop(h, m, e, fields) ==
    IF e = Nil THEN fields
    ELSE FieldsLoop(h, m, Unwrap(h, e),
                    IF IsEra(h, e) THEN AddFields(fields, errorFields(h, m, e)) ELSE fields)

\* The content of the map Fields(e) returns.
Fields(h, m, e) == FieldsLoop(h, m, e, EmptyF)

\* The map storage after Fields(e): fields := F{} is a new map.
MapsAfterFields(h, m, e) == Append(m, Fields(h, m, e))

\* Mutant: the map of the outermost error is returned when it has one.
FieldsResultShared(h, m, e) ==
    IF e # Nil /\ IsEra(h, e) /\ h[e].fields # Nil THEN h[e].fields ELSE Len(m) + 1

\* The address of the map Fields returns.
FieldsResult(h, m, e) == Len(m) + 1

\* ------------------------------------------------------------------ actions
Call(op, arg, opts, ret, str, text) ==
    [op |-> op, arg |-> arg, opts |-> opts, ret |-> ret, str |-> str, text |-> text]

\* No error exists yet; the caller holds the maps lits.
InitWith(lits) ==
    /\ heap = <<>>
    /\ maps = lits
    /\ last = Call("none", Nil, <<>>, Nil, "", <<>>)

Init == InitWith(Literals)

\* err := errors.New(t)
NewPlain(t) ==
    /\ heap' = Append(heap, PlainNode(t))
    /\ last' = Call("NewPlain", Nil, <<>>, Len(heap) + 1, "", <<>>)
    /\ UNCHANGED maps

\* err := fmt.Errorf(p + ": %w", e)
Wrap(p, e) ==
    /\ e \in DOMAIN heap
    /\ heap' = Append(heap, WrapNode(p, e))
    /\ last' = Call("Wrap", e, <<>>, Len(heap) + 1, "", <<>>)
    /\ UNCHANGED maps

\* err := era.New(e, opts...), e not nil (New of a nil error is a misuse the
\* package leaves undefined).
New(e, opts) ==
    /\ e \in DOMAIN heap
    /\ heap' = HeapAfterNew(heap, e, opts)
    /\ last' = Call("New", e, opts, Len(heap) + 1, "", <<>>)
    /\ UNCHANGED maps

\* e.Error()
CallError(e) ==
    /\ e \in DOMAIN heap
    /\ last' = Call("Error", e, <<>>, Nil, "", ErrorText(heap, e))
    /\ UNCHANGED <<heap, maps>>

\* era.Code(e)
CallCode(e) ==
    /\ e \in DOMAIN heap \cup {Nil}
    /\ last' = Call("Code", e, <<>>, Nil, Code(heap, e), <<>>)
    /\ UNCHANGED <<heap, maps>>

\* era.Message(e)
CallMessage(e) ==
    /\ e \in DOMAIN heap \cup {Nil}
    /\ last' = Call("Message", e, <<>>, Nil, Message(heap, e), <<>>)
    /\ UNCHANGED <<heap, maps>>

\* f := era.Fields(e)
CallFields(e) ==
    /\ e \in DOMAIN heap \cup {Nil}
    /\ maps' = MapsAfterFields(heap, maps, e)
    /\ last' = Call("Fields", e, <<>>, FieldsResult(heap, maps, e), "", <<>>)
    /\ UNCHANGED heap

\* opts = append(opts, o): the caller adds an option to the list it prepares.
AddOption(o) ==
    /\ last' = Call("Options", Nil, Append(last.opts, o), Nil, "", <<>>)
    /\ UNCHANGED <<heap, maps>>

\* era.Options{...}: the caller makes one bundle of the last k options of the
\* list it prepares.
MakeBundle(k) ==
    /\ k \in 0..Len(last.opts)
    /\ LET n == Len(last.opts)
       IN  last' = Call("Options", Nil,
                        Append(SubSeq(last.opts, 1, n - k), Options(SubSeq(last.opts, n - k + 1, n))),
                        Nil, "", <<>>)
    /\ UNCHANGED <<heap, maps>>

\* m[k] = v, by the caller, on a map it holds.
SetKey(a, k, v) ==
    /\ a \in DOMAIN maps
    /\ maps' = [maps EXCEPT ![a] = [x \in DOMAIN @ \cup {k} |-> IF x = k THEN v ELSE @[x]]]
    /\ last' = Call("SetKey", a, <<>>, Nil, "", <<>>)
    /\ UNCHANGED heap

\* delete(m, k), by the caller, on a map it holds.
DeleteKey(a, k) ==
    /\ a \in DOMAIN maps
    /\ k \in DOMAIN maps[a]
    /\ maps' = [maps EXCEPT ![a] = [x \in DOMAIN @ \ {k} |-> @[x]]]
    /\ last' = Call("DeleteKey", a, <<>>, Nil, "", <<>>)
    /\ UNCHANGED heap

\* The caller drops the maps Fields returned to it; the collector frees them.
Release ==
    /\ Len(maps) > Len(Literals)
    /\ \A n \in DOMAIN heap : heap[n].fields <= Len(Literals)
    /\ maps' = SubSeq(maps, 1, Len(Literals))
    /\ last' = Call("Release", Nil, <<>>, Nil, "", <<>>)
    /\ UNCHANGED heap

\* ---------------------------------------------------------- specifications
\* The number of options and bundles of an option list, members included.
RECURSIVE ListSize(_)
ListSize(os) ==
    IF os = <<>> THEN 0 ELSE 1 + ListSize(Head(os).members) + ListSize(Tail(os))

\* How deep the bundles of an option list are nested.
RECURSIVE ListDepth(_)
ListDepth(os) ==
    IF os = <<>> THEN 0
    ELSE LET d == IF Head(os).kind = "bundle" THEN 1 + ListDepth(Head(os).members) ELSE 0
             r == ListDepth(Tail(os))
         IN  IF d > r THEN d ELSE r

\* The top of the chain built so far.
Top == Len(heap)

\* No result of Fields is held by the caller.
NoResults == Len(maps) = Len(Literals)

\* The option lists of the chain's decorations: none, each single option, and
\* a bundle followed by a repeated option.
ChainOpts ==
    {<<>>}
    \cup {<<WithCode(c)>> : c \in Codes \ {""}}
    \cup {<<WithMessage(m)>> : m \in Messages \ {""}}
    \cup {<<WithFields(a)>> : a \in DOMAIN Literals}
    \cup {<<Options(<<WithCode("inner code"), WithMessage("inner message")>>),
            WithFields(2), WithFields(1)>>}

\* SpecChain: one chain is built node by node, each new error wrapping the
\* last one, and the accessors are called on the chain built so far.
NextChain ==
    \/ heap = <<>> /\ \E t \in Texts : NewPlain(t)
    \/ Top < MaxChain /\ NoResults /\ \E p \in Prefixes : Wrap(p, Top)
    \/ Top < MaxChain /\ NoResults /\ \E o \in ChainOpts : New(Top, o)
    \/ heap # <<>> /\ CallError(Top)
    \/ \E e \in {Top, Nil} : CallCode(e)
    \/ \E e \in {Top, Nil} : CallMessage(e)
    \/ NoResults /\ \E e \in {Top, Nil} : CallFields(e)
    \/ Release

SpecChain == Init /\ [][NextChain]_vars

\* The primitive options of SpecNew.
Prims ==
    {WithCode(c) : c \in Codes \ {""}}
    \cup {WithMessage(m) : m \in Messages \ {""}}
    \cup {WithFields(a) : a \in {1, 2}}

\* SpecNew: the caller prepares any option list, option by option and bundle
\* by bundle, and decorates one error with it.
NextNew ==
    \/ heap = <<>> /\ \E t \in Texts : NewPlain(t)
    \/ Top = 1 /\ ListSize(last.opts) < MaxSize /\ \E o \in Prims : AddOption(o)
    \/ /\ Top = 1 /\ ListSize(last.opts) < MaxSize
       /\ \E k \in 0..Len(last.opts) :
             /\ ListDepth(SubSeq(last.opts, Len(last.opts) - k + 1, Len(last.opts))) < MaxDepth
             /\ MakeBundle(k)
    \/ Top = 1 /\ New(Top, last.opts)

SpecNew == Init /\ [][NextNew]_vars

\* The option lists of Spec: none, or any map the caller holds as fields.
HeapOpts == {<<>>} \cup {<<WithFields(a)>> : a \in DOMAIN maps}

\* Spec: the caller keeps the maps it passes to WithFields and the maps Fields
\* returns, and changes them while the errors built from them are in use.
Next ==
    \/ heap = <<>> /\ \E t \in Texts : NewPlain(t)
    \/ Top < MaxNodes /\ \E o \in HeapOpts : New(Top, o)
    \/ Len(maps) < MaxMaps /\ \E e \in DOMAIN heap \cup {Nil} : CallFields(e)
    \/ \E a \in DOMAIN maps, k \in {"key"}, v \in {"outer val"} : SetKey(a, k, v)
    \/ \E a \in DOMAIN maps, k \in {"key"} : DeleteKey(a, k)

\* The caller starts with one map.
HeapLiterals == <<InnerF>>

InitHeap == InitWith(HeapLiterals)

Spec == InitHeap /\ [][Next]_vars

\* ------------------------------------------------------------- properties
\* The chain of e, outermost first.
RECURSIVE Chain(_, _)
Chain(h, e) == IF e = Nil THEN <<>> ELSE <<e>> \o Chain(h, h[e].err)

\* The decorated errors of the chain of e, outermost first.
Decorated(h, e) == SelectSeq(Chain(h, e), LAMBDA n : h[n].kind = "era")

\* The smallest element of a non-empty set of numbers.
Least(S) == CHOOSE i \in S : \A j \in S : i <= j

\* The greatest element of a non-empty set of numbers.
Greatest(S) == CHOOSE i \in S : \A j \in S : j <= i

\* The own fields of node n, as key/value pairs.
OwnFields(h, m, n) == IF h[n].fields = Nil THEN EmptyF ELSE m[h[n].fields]

\* The texts of the errors.New and fmt.Errorf nodes of the chain of e.
UndecoratedText(h, e) ==
    LET c == SelectSeq(Chain(h, e), LAMBDA n : h[n].kind # "era")
    IN  [i \in 1..Len(c) |-> h[c[i]].text]

\* C1: a decorated error renders exactly as the error it wraps, at any depth
\* of decoration: the text Error() returns is the text of the undecorated
\* errors of the chain, and no code, message or field is part of it.
C1_RenderingUnchanged ==
    /\ \A n \in DOMAIN heap :
          heap[n].kind = "era" => ErrorText(heap, n) = ErrorText(heap, heap[n].err)
    /\ last.op = "Error" =>
          /\ last.text = UndecoratedText(heap, last.arg)
          /\ \A i \in DOMAIN last.text : last.text[i] \in Texts \cup Prefixes

\* Error() was called on an error decorated twice, the outer decoration
\* carrying a code, a message and fields.
C1_Witness ==
    /\ last.op = "Error"
    /\ heap[last.arg].kind = "era"
    /\ heap[last.arg].code # "" /\ heap[last.arg].message # "" /\ heap[last.arg].fields # Nil
    /\ heap[heap[last.arg].err].kind = "era"
    /\ heap[heap[last.arg].err].code # ""

\* The code of the outermost decorated error of the chain of e that has one.
OutermostCode(h, e) ==
    LET d == Decorated(h, e)
        has == {i \in DOMAIN d : h[d[i]].code # ""}
    IN  IF has = {} THEN "" ELSE h[d[Least(has)]].code

\* C2: Code(err) is the own code of the outermost decorated error of the
\* chain whose code is not empty, and the empty string when there is none or
\* err is nil.
C2_CodeOutermostNonEmpty ==
    last.op = "Code" => last.str = OutermostCode(heap, last.arg)

\* Code was called on a chain whose outermost decoration has no code, over a
\* decoration with one code, over a decoration with another: the first
\* non-empty code is returned.
C2_Witness ==
    /\ last.op = "Code" /\ last.arg # Nil
    /\ LET d == Decorated(heap, last.arg)
       IN  /\ Len(d) = 3
           /\ heap[d[1]].code = ""
           /\ heap[d[2]].code # "" /\ heap[d[3]].code # ""
           /\ heap[d[2]].code # heap[d[3]].code
           /\ last.str = heap[d[2]].code

\* The message of the outermost decorated error of the chain of e that has one.
OutermostMessage(h, e) ==
    LET d == Decorated(h, e)
        has == {i \in DOMAIN d : h[d[i]].message # ""}
    IN  IF has = {} THEN "" ELSE h[d[Least(has)]].message

\* C3: Message(err) is the own message of the outermost decorated error of
\* the chain whose message is not empty, the empty string when there is none
\* or err is nil, whatever the codes of the chain are.
C3_MessageOutermostNonEmpty ==
    last.op = "Message" => last.str = OutermostMessage(heap, last.arg)

\* Message was called on a chain where the code and the message come from
\* different errors: the outermost error has a code and no message, an inner
\* one has the message.
C3_Witness ==
    /\ last.op = "Message" /\ last.arg # Nil
    /\ LET d == Decorated(heap, last.arg)
       IN  /\ Len(d) >= 2
           /\ heap[d[1]].code # "" /\ heap[d[1]].message = ""
           /\ heap[d[2]].message # "" /\ heap[d[2]].code = ""
           /\ last.str = heap[d[2]].message
           /\ Code(heap, last.arg) = heap[d[1]].code

\* C4: Fields(err) returns a map (never nil) whose keys are the keys of the
\* own fields of all the decorated errors of the chain, each with the value
\* of the outermost error that has the key.
C4_FieldsUnionOutermostWins ==
    last.op = "Fields" =>
        /\ last.ret # Nil
        /\ last.ret \in DOMAIN maps
        /\ LET d == Decorated(heap, last.arg)
               r == maps[last.ret]
           IN  /\ DOMAIN r = UNION {DOMAIN OwnFields(heap, maps, d[i]) : i \in DOMAIN d}
               /\ \A k \in DOMAIN r :
                     LET has == {i \in DOMAIN d : k \in DOMAIN OwnFields(heap, maps, d[i])}
                     IN  r[k] = OwnFields(heap, maps, d[Least(has)])[k]

\* Fields was called on the chain of the "wrapped" test: the outer fields
\* over a plain wrap over the inner fields.
C4_Witness ==
    /\ last.op = "Fields" /\ last.arg # Nil
    /\ LET c == Chain(heap, last.arg)
       IN  /\ Len(c) = 4
           /\ heap[c[1]].kind = "era" /\ OwnFields(heap, maps, c[1]) = OuterF
           /\ heap[c[2]].kind = "wrap"
           /\ heap[c[3]].kind = "era" /\ OwnFields(heap, maps, c[3]) = InnerF
    /\ maps[last.ret] = [k \in Keys |-> IF k = "inner" THEN "inner val" ELSE "outer val"]

\* The first error at or below e that is not a fmt.Errorf wrap.
RECURSIVE SkipWraps(_, _)
SkipWraps(h, e) ==
    IF e = Nil THEN Nil
    ELSE IF h[e].kind = "wrap" THEN SkipWraps(h, h[e].err)
    ELSE e

\* The heap with the fmt.Errorf wraps taken out of every chain.
WithoutWraps(h) ==
    [n \in DOMAIN h |-> [h[n] EXCEPT !.err = SkipWraps(h, h[n].err)]]

\* C6: Code, Message and Fields return on a chain what they return on the
\* chain with its non-decorated wrapping errors removed.
C6_ChainTolerance ==
    LET h == WithoutWraps(heap)
        e == SkipWraps(heap, last.arg)
    IN  /\ last.op = "Code" => last.str = Code(h, e)
        /\ last.op = "Message" => last.str = Message(h, e)
        /\ last.op = "Fields" => maps[last.ret] = Fields(h, Literals, e)

\* Message was called on a chain whose outermost decoration has no message
\* and wraps, through a fmt.Errorf wrap, a decoration that has one.
C6_Witness ==
    /\ last.op = "Message" /\ last.arg # Nil
    /\ LET c == Chain(heap, last.arg)
       IN  /\ Len(c) = 4
           /\ heap[c[1]].kind = "era" /\ heap[c[1]].message = ""
           /\ heap[c[2]].kind = "wrap"
           /\ heap[c[3]].kind = "era" /\ heap[c[3]].message # ""
           /\ last.str = heap[c[3]].message

\* C7: a call of an accessor and a further New or wrap on top of an error
\* leave every existing error as it was: its own code, message and fields,
\* its text, and what Code, Message and Fields return on it.
C7_ExistingErrorsUnchanged ==
    \* (a step that changes neither the heap nor the maps changes none of these)
    [][\A n \in DOMAIN heap :
          \/ heap' = heap /\ maps' = maps
          \/ /\ n \in DOMAIN heap'
             /\ heap'[n] = heap[n]
             /\ OwnFields(heap', maps', n) = OwnFields(heap, maps, n)
             /\ ErrorText(heap', n) = ErrorText(heap, n)
             /\ Code(heap', n) = Code(heap, n)
             /\ Message(heap', n) = Message(heap, n)
             /\ Fields(heap', maps', n) = Fields(heap, maps, n)]_vars

\* An error with a code, a message and fields was decorated again with
\* another code, message and fields, and still resolves to its own.
C7_Witness ==
    /\ last.op = "New"
    /\ heap[last.arg].kind = "era"
    /\ Code(heap, last.arg) # "" /\ Code(heap, last.ret) # ""
    /\ Code(heap, last.ret) # Code(heap, last.arg)
    /\ Fields(heap, maps, last.arg) # Fields(heap, maps, last.ret)
    /\ Fields(heap, maps, last.arg) # EmptyF

\* The options of an option list with every bundle replaced by its members.
RECURSIVE Flatten(_)
Flatten(os) ==
    IF os = <<>> THEN <<>>
    ELSE (IF Head(os).kind = "bundle" THEN Flatten(Head(os).members) ELSE <<Head(os)>>)
         \o Flatten(Tail(os))

\* The option list with the bundle at position i replaced by its members.
Splice(os, i) == SubSeq(os, 1, i - 1) \o os[i].members \o SubSeq(os, i + 1, Len(os))

\* C5: New(e, opts...) builds the same error, with the same Code, Message,
\* Fields and text, as New with any bundle of opts replaced by its members in
\* order, and as New with all bundles, nested ones included, so replaced.
C5_BundleEquivalence ==
    last.op = "New" =>
        LET SameAs(os) ==
                LET h == [heap EXCEPT ![last.ret] = NewNode(last.arg, os)]
                IN  /\ heap[last.ret] = h[last.ret]
                    /\ Code(heap, last.ret) = Code(h, last.ret)
                    /\ Message(heap, last.ret) = Message(h, last.ret)
                    /\ Fields(heap, maps, last.ret) = Fields(h, maps, last.ret)
                    /\ ErrorText(heap, last.ret) = ErrorText(h, last.ret)
        IN  /\ SameAs(Flatten(last.opts))
            /\ \A i \in DOMAIN last.opts :
                  last.opts[i].kind = "bundle" => SameAs(Splice(last.opts, i))

\* New was called with a code option followed by a bundle that holds a
\* bundle that sets another code: the node has the code set last.
C5_Witness ==
    /\ last.op = "New"
    /\ Len(last.opts) = 2
    /\ last.opts[1].kind = "code"
    /\ last.opts[2].kind = "bundle"
    /\ Len(last.opts[2].members) = 1
    /\ last.opts[2].members[1].kind = "bundle"
    /\ Len(last.opts[2].members[1].members) = 1
    /\ last.opts[2].members[1].members[1].kind = "code"
    /\ last.opts[2].members[1].members[1].str # last.opts[1].str
    /\ heap[last.ret].code = last.opts[2].members[1].members[1].str

\* The last option of the given kind in a list without bundles, or none.
LastOfKind(os, kind, none) ==
    LET at == {i \in DOMAIN os : os[i].kind = kind}
    IN  IF at = {} THEN none ELSE os[Greatest(at)]

\* C9: the options of one New are applied left to right, each to its own
\* attribute: the node has the code of the last code option, the message of
\* the last message option and, as its fields, the whole map of the last
\* fields option; an attribute no option sets is empty.
C9_LastOptionWins ==
    last.op = "New" =>
        LET os == Flatten(last.opts)
            n == heap[last.ret]
            f == LastOfKind(os, "fields", WithFields(Nil)).map
        IN  /\ n.kind = "era" /\ n.err = last.arg
            /\ n.code = LastOfKind(os, "code", WithCode("")).str
            /\ n.message = LastOfKind(os, "message", WithMessage("")).str
            /\ n.fields = f
            /\ OwnFields(heap, maps, last.ret) = IF f = Nil THEN EmptyF ELSE maps[f]

\* New was called with two fields options and two code options and no
\* message option; a key of the first map is not in the second.
C9_Witness ==
    /\ last.op = "New"
    /\ \E i, j \in DOMAIN last.opts :
          /\ i < j
          /\ last.opts[i].kind = "fields" /\ last.opts[j].kind = "fields"
          /\ \E k \in DOMAIN maps[last.opts[i].map] :
                /\ k \notin DOMAIN maps[last.opts[j].map]
                /\ k \notin DOMAIN OwnFields(heap, maps, last.ret)
    /\ \E i, j \in DOMAIN last.opts :
          /\ i < j
          /\ last.opts[i].kind = "code" /\ last.opts[j].kind = "code"
          /\ last.opts[i].str # last.opts[j].str
          /\ heap[last.ret].code = last.opts[j].str
    /\ heap[last.ret].message = ""

\* The caller changed a map in the last step.
MapChanged == last'.op \in {"SetKey", "DeleteKey"} /\ maps' # maps

\* C8: once New has returned, nothing the caller does to the map it passed
\* to WithFields changes the own fields of the error or what Fields returns
\* on it.
C8_ImmutableAfterConstruction ==
    [][MapChanged =>
          \A n \in DOMAIN heap :
             /\ OwnFields(heap', maps', n) = OwnFields(heap, maps, n)
             /\ Fields(heap', maps', n) = Fields(heap, maps, n)]_vars

\* The maps Fields has returned that the caller has passed to no WithFields.
PureResults(h, m) ==
    {a \in DOMAIN m : a > Len(HeapLiterals) /\ \A n \in DOMAIN h : h[n].fields # a}

====
